---- MODULE Spec2Model ----
(***************************************************************************)
(* Model of the DashDot SMART overlay (dynamic.ts and index.ts as written  *)
(* by apply-dashdot-smart-patch, and the Homarr client patch).             *)
(*                                                                         *)
(* A JavaScript string is a sequence of one-character strings, so that     *)
(* startsWith / endsWith / concatenation are computed and not assumed.     *)
(* An object is a function whose DOMAIN is the set of its known keys: a    *)
(* property that is undefined is a key that is absent.                     *)
(***************************************************************************)
EXTENDS Integers, Sequences, FiniteSets, TLC

VARIABLES
    now,                \* Date.now(), in milliseconds
    ticks,              \* number of clock advances so far (bounded)
    smartDataCache,     \* Map<string, SmartData & {timestamp}>
    layout,             \* svInfo.storage, fixed for the process lifetime
    hostWin32,          \* PLATFORM_IS_WINDOWS
    enable_smart_temps, \* CONFIG.enable_smart_temps
    mappers,            \* the getMappedLayout invocations in flight
    lastFailure,        \* per device path: when the catch branch last stored a record
    storage,            \* the current value of obs.storage
    response,           \* the last response of GET /load/storage[-extended]
    client,             \* Homarr's getCurrentStorageLoadAsync
    sockets             \* the socket.io connections and what was emitted to each

serverVars == <<now, ticks, smartDataCache, layout, hostWin32, enable_smart_temps,
                mappers, lastFailure>>

protoVars == <<storage, response, client, sockets>>

vars == <<serverVars, protoVars>>

(***************************************************************************)
(* Strings                                                                 *)
(***************************************************************************)
StartsWith(s, p) == Len(p) <= Len(s) /\ SubSeq(s, 1, Len(p)) = p

EndsWith(s, p) == Len(p) <= Len(s) /\ SubSeq(s, Len(s) - Len(p) + 1, Len(s)) = p

\* an optional string that was not given (raidLabel?, raidName?)
UndefinedStr == <<"undefined">>

\* JavaScript truthiness of an optional string
Truthy(s) == s # UndefinedStr /\ s # <<>>

DevPrefix == <<"/", "d", "e", "v", "/">>
RootPath == <<"/">>
BootPath == <<"/", "b", "o", "o", "t">>
HostRoot == <<"/", "m", "n", "t", "/", "h", "o", "s", "t">>
ByUuidPrefix == <<"d", "e", "v", "-", "d", "i", "s", "k", "-", "b", "y", "-", "u", "u", "i", "d", "-">>

S_sda == <<"s", "d", "a">>
S_sdb == <<"s", "d", "b">>
S_SDA == <<"S", "D", "A">>
S_dev_sda == <<"/", "d", "e", "v", "/", "s", "d", "a">>
S_dev_sdb == <<"/", "d", "e", "v", "/", "s", "d", "b">>
S_nvme == <<"n", "v", "m", "e", "0", "n", "1">>
S_sda1 == <<"s", "d", "a", "1">>
S_sdb1 == <<"s", "d", "b", "1">>
S_md0 == <<"m", "d", "0">>
S_dev_sda1 == <<"/", "d", "e", "v", "/", "s", "d", "a", "1">>
S_dev_sdb1 == <<"/", "d", "e", "v", "/", "s", "d", "b", "1">>
S_dev_md0 == <<"/", "d", "e", "v", "/", "m", "d", "0">>
S_mnt_root == <<"/", "m", "n", "t", "/", "h", "o", "s", "t", "/">>
S_mnt_boot == <<"/", "m", "n", "t", "/", "h", "o", "s", "t", "/", "b", "o", "o", "t">>
S_mnt_data == <<"/", "m", "n", "t", "/", "h", "o", "s", "t", "/", "d", "a", "t", "a">>
S_mnt_uuid == <<"/", "s", "r", "v", "/", "d", "e", "v", "-", "d", "i", "s", "k", "-", "b", "y", "-", "u", "u", "i", "d", "-", "u", "2">>
S_u1 == <<"u", "1">>
S_u2 == <<"u", "2">>
S_raid == <<"r", "a", "i", "d">>
S_overlay == <<"o", "v", "e", "r", "l", "a", "y">>

(***************************************************************************)
(* Collaborators of dynamic.ts that live outside the overlay               *)
(***************************************************************************)
\* utils.fromHost inside the container: the host's root is mounted at /mnt/host
fromHost(path) == HostRoot \o path

\* CONFIG.fs_type_filter
fs_type_filter == {"cifs", "9p"}

RECURSIVE sumUp(_, _)
sumUp(items, key) ==
    IF items = <<>> THEN 0 ELSE Head(items)[key] + sumUp(Tail(items), key)

Max(a, b) == IF a >= b THEN a ELSE b

(***************************************************************************)
(* DynamicStorageMapper: the load of one layout entry                      *)
(***************************************************************************)
getValidSizes(win32, sizes) ==
    SelectSeq(sizes, LAMBDA s :
        (win32 \/ StartsWith(s.mount, fromHost(RootPath)))
        /\ s.type \notin fs_type_filter)

getBlocksForDisks(win32, blocks, disks) ==
    SelectSeq(blocks, LAMBDA b :
        \E k \in DOMAIN disks :
            IF win32 THEN disks[k].device = b.device
                     ELSE StartsWith(b.name, disks[k].device))

getBlocksForRaid(blocks, raidLabel, raidName) ==
    SelectSeq(blocks, LAMBDA b :
        \/ (Truthy(raidLabel) /\ StartsWith(b.label, raidLabel))
        \/ (Truthy(raidName) /\ StartsWith(b.name, raidName)))

getBlocksForXfs(blocks, parts) ==
    SelectSeq(blocks, LAMBDA b :
        /\ b.type = "md"
        /\ b.fsType = "xfs"
        /\ \E k \in DOMAIN parts : parts[k].uuid = b.uuid)

isRootMount(win32, mount) ==
    ~win32 /\ (mount = fromHost(RootPath) \/ StartsWith(mount, fromHost(BootPath)))

\* the filter at the head of getSizeForBlocks: the matched filesystem-size records
MatchedSizes(win32, validSizes, deviceBlocks, isHost) ==
    SelectSeq(validSizes, LAMBDA size :
        \E k \in DOMAIN deviceBlocks :
            LET block == deviceBlocks[k]
                matchedByMount ==
                    /\ size.mount # <<>>
                    /\ \/ block.mount = size.mount
                       \/ EndsWith(size.mount, ByUuidPrefix \o block.uuid)
                matchedByDevice ==
                    block.device # <<>> /\ StartsWith(size.fs, block.device)
                matchedByHost == isHost /\ isRootMount(win32, size.mount)
            IN  matchedByMount \/ matchedByDevice \/ matchedByHost)

getSizeForBlocks_NoClamp(win32, validSizes, deviceBlocks, diskSize, isHost) ==
    LET sizes == MatchedSizes(win32, validSizes, deviceBlocks, isHost)
        isLvm == \E k \in DOMAIN deviceBlocks : deviceBlocks[k].fsType = "LVM2_member"
    IN  IF sizes = <<>> THEN -1
        ELSE IF isLvm THEN sumUp(sizes, "used")
        ELSE sumUp(sizes, "used") + (diskSize - sumUp(sizes, "size"))

getSizeForBlocks_NoSentinel(win32, validSizes, deviceBlocks, diskSize, isHost) ==
    LET sizes == MatchedSizes(win32, validSizes, deviceBlocks, isHost)
        isLvm == \E k \in DOMAIN deviceBlocks : deviceBlocks[k].fsType = "LVM2_member"
    IN  IF isLvm THEN sumUp(sizes, "used")
        ELSE sumUp(sizes, "used") + Max(0, diskSize - sumUp(sizes, "size"))

getSizeForBlocks(win32, validSizes, deviceBlocks, diskSize, isHost) ==
    LET sizes == MatchedSizes(win32, validSizes, deviceBlocks, isHost)
    IN  IF Len(sizes) = 0 THEN -1
        ELSE LET calculatedSize == sumUp(sizes, "used")
                 isLvm == \E k \in DOMAIN deviceBlocks :
                              deviceBlocks[k].fsType = "LVM2_member"
             IN  IF isLvm THEN calculatedSize
                 ELSE LET totalAvailable == sumUp(sizes, "size")
                          preAllocated == Max(0, diskSize - totalAvailable)
                      IN  calculatedSize + preAllocated

\* deviceParts.concat(raid).concat(xfs) of one layout entry
DeviceBlocksOf(win32, blocks, entry) ==
    LET deviceParts == getBlocksForDisks(win32, blocks, entry.disks)
    IN  deviceParts \o getBlocksForRaid(blocks, entry.raidLabel, entry.raidName)
                    \o getBlocksForXfs(blocks, deviceParts)

IsHostOf(win32, deviceBlocks) ==
    \E k \in DOMAIN deviceBlocks : isRootMount(win32, deviceBlocks[k].mount)

\* the load half of the per-entry callback of getMappedLayout
EntryLoad(win32, blocks, sizes, entry) ==
    IF entry.virtual
    THEN LET found == SelectSeq(sizes, LAMBDA s :
                          Len(entry.disks) > 0 /\ s.fs = entry.disks[1].device)
         IN  IF found = <<>> THEN 0 ELSE found[1].used
    ELSE LET deviceBlocks == DeviceBlocksOf(win32, blocks, entry)
         IN  getSizeForBlocks(win32, getValidSizes(win32, sizes), deviceBlocks,
                              entry.size, IsHostOf(win32, deviceBlocks))

(***************************************************************************)
(* SMART: device paths, parsing of smartctl's output                       *)
(***************************************************************************)
SMART_CACHE_DURATION_MS == 60000

LowerAlphabet == <<"a", "b", "c", "d", "e", "f", "g", "h", "i", "j", "k", "l", "m",
                   "n", "o", "p", "q", "r", "s", "t", "u", "v", "w", "x", "y", "z">>
UpperAlphabet == <<"A", "B", "C", "D", "E", "F", "G", "H", "I", "J", "K", "L", "M",
                   "N", "O", "P", "Q", "R", "S", "T", "U", "V", "W", "X", "Y", "Z">>
Digits == <<"0", "1", "2", "3", "4", "5", "6", "7", "8", "9">>

IndexIn(alphabet, c) ==
    IF \E k \in DOMAIN alphabet : alphabet[k] = c
    THEN CHOOSE k \in DOMAIN alphabet : alphabet[k] = c
    ELSE 0

ToLowerChar(c) ==
    IF IndexIn(UpperAlphabet, c) # 0 THEN LowerAlphabet[IndexIn(UpperAlphabet, c)] ELSE c

ToUpperChar(c) ==
    IF IndexIn(LowerAlphabet, c) # 0 THEN UpperAlphabet[IndexIn(LowerAlphabet, c)] ELSE c

toUpperCase(s) == [k \in DOMAIN s |-> ToUpperChar(s[k])]

toLowerCase(s) == [k \in DOMAIN s |-> ToLowerChar(s[k])]

normalizeDevicePath(device) ==
    IF StartsWith(device, DevPrefix) THEN device ELSE DevPrefix \o device

\* /^\/dev\/sd[a-z]+$/i
SMART_SATA_DEVICE_REGEX_Any(d) == Len(d) > 0

SMART_SATA_DEVICE_REGEX(d) ==
    LET head == DevPrefix \o <<"s", "d">>
    IN  /\ Len(d) > Len(head)
        /\ toLowerCase(SubSeq(d, 1, Len(head))) = head
        /\ \A k \in (Len(head) + 1)..Len(d) : IndexIn(LowerAlphabet, ToLowerChar(d[k])) # 0

\* [...new Set(xs)]: first occurrences, in order
RECURSIVE Dedup(_)
Dedup(xs) ==
    IF xs = <<>> THEN <<>>
    ELSE LET init == Dedup(SubSeq(xs, 1, Len(xs) - 1))
             last == xs[Len(xs)]
         IN  IF \E k \in DOMAIN init : init[k] = last THEN init ELSE Append(init, last)

SmartCandidates_NoDedup(disks) ==
    SelectSeq([k \in DOMAIN disks |-> normalizeDevicePath(disks[k].device)],
              SMART_SATA_DEVICE_REGEX)

SmartCandidates(disks) ==
    SelectSeq(Dedup([k \in DOMAIN disks |-> normalizeDevicePath(disks[k].device)]),
              SMART_SATA_DEVICE_REGEX)

\* Number.parseInt(raw, 10): <<n>>, or <<>> for NaN
RECURSIVE DigitsValue(_, _)
DigitsValue(s, acc) ==
    IF s = <<>> \/ IndexIn(Digits, Head(s)) = 0 THEN acc
    ELSE DigitsValue(Tail(s), 10 * acc + (IndexIn(Digits, Head(s)) - 1))

parseInt(raw) ==
    LET neg == raw # <<>> /\ Head(raw) = "-"
        body == IF raw # <<>> /\ Head(raw) \in {"-", "+"} THEN Tail(raw) ELSE raw
    IN  IF body = <<>> \/ IndexIn(Digits, Head(body)) = 0 THEN <<>>
        ELSE <<(IF neg THEN -1 ELSE 1) * DigitsValue(body, 0)>>

\* stdout of smartctl -A: a sequence of lines; a line is its first column (id), its
\* attribute name and its tenth column (raw, <<>> when the line has fewer columns)
RECURSIVE parseSmartTemperature(_)
parseSmartTemperature(stdout) ==
    IF stdout = <<>> THEN <<>>
    ELSE LET line == Head(stdout)
         IN  IF /\ line.id = "194"
                /\ line.name \in {"Temperature_Celsius", "Temperature_Internal"}
                /\ line.raw # <<>>
                /\ parseInt(line.raw) # <<>>
             THEN parseInt(line.raw)
             ELSE parseSmartTemperature(Tail(stdout))

PASSED == <<"P", "A", "S", "S", "E", "D">>
FAILED == <<"F", "A", "I", "L", "E", "D">>

\* stdout of smartctl -H: whether the "SMART overall-health self-assessment test
\* result:" phrase is there, and the run of [A-Z_] characters that follows it
parseSmartHealth(stdout) ==
    IF ~stdout.phrase \/ stdout.token = <<>> THEN <<>>
    ELSE LET status == toUpperCase(stdout.token)
         IN  IF status = PASSED THEN [overallStatus |-> PASSED, healthy |-> TRUE]
             ELSE IF status = FAILED THEN [overallStatus |-> FAILED, healthy |-> FALSE]
             ELSE [overallStatus |-> status, healthy |-> FALSE]

SmartKeys == {"temperature", "overallStatus", "healthy"}

Restrict(f, keys) == [k \in DOMAIN f \cap keys |-> f[k]]

TemperatureField(t) == IF t = <<>> THEN <<>> ELSE [temperature |-> t[1]]

(***************************************************************************)
(* getSmartData and the health cache                                       *)
(***************************************************************************)
\* smartDataCache.get of a key that is not there; also a SmartData with no field
NoEntry == <<>>

CacheGet(cache, devicePath) ==
    IF devicePath \in DOMAIN cache THEN cache[devicePath] ELSE NoEntry

CacheSet(cache, devicePath, value) ==
    [q \in DOMAIN cache \cup {devicePath} |-> IF q = devicePath THEN value ELSE cache[q]]

CacheHit_OnlyWithData(cached, t) ==
    /\ cached # NoEntry
    /\ DOMAIN cached # {"timestamp"}
    /\ t - cached.timestamp < SMART_CACHE_DURATION_MS

CacheHit_Inclusive(cached, t) ==
    cached # NoEntry /\ t - cached.timestamp <= SMART_CACHE_DURATION_MS

\* cached && now - cached.timestamp < SMART_CACHE_DURATION_MS
CacheHit(cached, t) ==
    cached # NoEntry /\ t - cached.timestamp < SMART_CACHE_DURATION_MS

\* getSmartData up to its await: a hit returns at once, a miss spawns smartctl -A
\* and smartctl -H.  seen and failSeen remember what the call found when it started,
\* tool how its smartctl pair ended.
GetSmartDataStart(cache, failures, devicePath, t) ==
    LET cached == CacheGet(cache, devicePath)
        base == [path |-> devicePath, start |-> t, seen |-> cached,
                 failSeen |-> CacheGet(failures, devicePath)]
    IN  IF CacheHit(cached, t)
        THEN base @@ [state |-> "hit", invoked |-> FALSE, tool |-> "none",
                      value |-> Restrict(cached, SmartKeys)]
        ELSE base @@ [state |-> "pending", invoked |-> TRUE, tool |-> "running",
                      value |-> NoEntry]

GetSmartDataSettle_NoCatch(call, res) ==
    IF res.aOk /\ res.hOk
    THEN LET value == TemperatureField(parseSmartTemperature(res.a))
                          @@ parseSmartHealth(res.h)
         IN  [state |-> "fulfilled", value |-> value,
              store |-> value @@ [timestamp |-> call.start]]
    ELSE [state |-> "rejected", value |-> NoEntry, store |-> NoEntry]

GetSmartDataSettle_NoStore(call, res) ==
    IF res.aOk /\ res.hOk
    THEN LET value == TemperatureField(parseSmartTemperature(res.a))
                          @@ parseSmartHealth(res.h)
         IN  [state |-> "fulfilled", value |-> value,
              store |-> value @@ [timestamp |-> call.start]]
    ELSE [state |-> "fulfilled", value |-> NoEntry, store |-> NoEntry]

\* getSmartData from the await on: what the call returns and what it stores.
\* Promise.all of the two processes rejects as soon as one of them fails.
GetSmartDataSettle(call, res) ==
    IF res.aOk /\ res.hOk
    THEN LET temperature == parseSmartTemperature(res.a)
             healthData == parseSmartHealth(res.h)
             value == TemperatureField(temperature) @@ healthData
         IN  [state |-> "fulfilled", value |-> value,
              store |-> value @@ [timestamp |-> call.start]]
    ELSE [state |-> "fulfilled", value |-> NoEntry,
          store |-> [timestamp |-> call.start]]

(***************************************************************************)
(* getMappedLayout                                                         *)
(***************************************************************************)
SetMax(S) == CHOOSE x \in S : \A y \in S : y <= x

HasStatus(entry, status) ==
    "overallStatus" \in DOMAIN entry /\ entry.overallStatus = status

AggregateSmart_FirstTemp(smartData) ==
    LET known == SelectSeq(smartData, LAMBDA e : "temperature" \in DOMAIN e)
        temperaturePart == IF known # <<>> THEN [temperature |-> known[1].temperature]
                           ELSE NoEntry
        healthPart ==
            IF \E k \in DOMAIN smartData : HasStatus(smartData[k], FAILED)
            THEN [overallStatus |-> FAILED, healthy |-> FALSE]
            ELSE IF \E k \in DOMAIN smartData : HasStatus(smartData[k], PASSED)
            THEN [overallStatus |-> PASSED, healthy |-> TRUE]
            ELSE NoEntry
    IN  temperaturePart @@ healthPart

AggregateSmart_PassedFirst(smartData) ==
    LET availableTemps == {smartData[k].temperature :
                              k \in {j \in DOMAIN smartData :
                                        "temperature" \in DOMAIN smartData[j]}}
        temperaturePart == IF availableTemps # {}
                           THEN [temperature |-> SetMax(availableTemps)]
                           ELSE NoEntry
        healthPart ==
            IF \E k \in DOMAIN smartData : HasStatus(smartData[k], PASSED)
            THEN [overallStatus |-> PASSED, healthy |-> TRUE]
            ELSE IF \E k \in DOMAIN smartData : HasStatus(smartData[k], FAILED)
            THEN [overallStatus |-> FAILED, healthy |-> FALSE]
            ELSE NoEntry
    IN  temperaturePart @@ healthPart

\* the aggregation over the records of one entry's candidates
AggregateSmart(smartData) ==
    LET availableTemps == {smartData[k].temperature :
                              k \in {j \in DOMAIN smartData :
                                        "temperature" \in DOMAIN smartData[j]}}
        temperaturePart == IF availableTemps # {}
                           THEN [temperature |-> SetMax(availableTemps)]
                           ELSE NoEntry
        healthPart ==
            IF \E k \in DOMAIN smartData : HasStatus(smartData[k], FAILED)
            THEN [overallStatus |-> FAILED, healthy |-> FALSE]
            ELSE IF \E k \in DOMAIN smartData : HasStatus(smartData[k], PASSED)
            THEN [overallStatus |-> PASSED, healthy |-> TRUE]
            ELSE NoEntry
    IN  temperaturePart @@ healthPart

EntryCalls_IgnoreFlag(cache, failures, enabled, entry, t) ==
    LET smartCandidates == SmartCandidates(entry.disks)
    IN  [k \in DOMAIN smartCandidates |->
            GetSmartDataStart(cache, failures, smartCandidates[k], t)]

\* the getSmartData calls one layout entry starts (none when polling is off, the
\* entry has no disks or no disk is a SATA path)
EntryCalls(cache, failures, enabled, entry, t) ==
    IF enabled /\ Len(entry.disks) > 0
    THEN LET smartCandidates == SmartCandidates(entry.disks)
         IN  [k \in DOMAIN smartCandidates |->
                 GetSmartDataStart(cache, failures, smartCandidates[k], t)]
    ELSE <<>>

EntryResult_LoadNeedsSmart(win32, blocks, sizes, entry, calls) ==
    [load |-> IF \E k \in DOMAIN calls : calls[k].value = NoEntry THEN -1
              ELSE EntryLoad(win32, blocks, sizes, entry)]
        @@ AggregateSmart([k \in DOMAIN calls |-> calls[k].value])

\* what the per-entry callback returns once its smartData is there
EntryResult(win32, blocks, sizes, entry, calls) ==
    [load |-> EntryLoad(win32, blocks, sizes, entry)]
        @@ AggregateSmart([k \in DOMAIN calls |-> calls[k].value])

\* a slot of the outer Promise.all that is not fulfilled yet
Pending == <<>>

PromiseAllFulfil_Push(results, i, value) ==
    LET j == CHOOSE k \in DOMAIN results :
                 results[k] = Pending /\ \A l \in 1..(k - 1) : results[l] # Pending
    IN  [results EXCEPT ![j] = value]

\* Promise.all keeps each value at the index of its promise
PromiseAllFulfil(results, i, value) == [results EXCEPT ![i] = value]

Idle == [status |-> "idle", blocks |-> <<>>, sizes |-> <<>>, calls |-> <<>>,
         results |-> <<>>, finished |-> <<>>]

EntrySettled(calls) == \A k \in DOMAIN calls : calls[k].state # "pending"

EntryRejected(calls) == \E k \in DOMAIN calls : calls[k].state = "rejected"

\* run the continuation of entry i if its smartData is complete; finished lists the
\* entries in the order their callbacks returned
FinishEntry(win32, ents, mp, i) ==
    IF (\E n \in DOMAIN mp.finished : mp.finished[n] = i) \/ ~EntrySettled(mp.calls[i])
    THEN mp
    ELSE IF EntryRejected(mp.calls[i])
    THEN [mp EXCEPT !.status = "rejected", !.finished = Append(@, i)]
    ELSE LET res == PromiseAllFulfil(mp.results, i,
                        EntryResult(win32, mp.blocks, mp.sizes, ents[i], mp.calls[i]))
             fin == Append(mp.finished, i)
         IN  [mp EXCEPT !.results = res, !.finished = fin,
                        !.status = IF @ = "running" /\ Len(fin) = Len(ents)
                                   THEN "done" ELSE @]

RECURSIVE FinishFrom(_, _, _, _)
FinishFrom(win32, ents, mp, i) ==
    IF i > Len(ents) THEN mp
    ELSE FinishFrom(win32, ents, FinishEntry(win32, ents, mp, i), i + 1)

(***************************************************************************)
(* Inputs: layout entries, block devices, filesystem sizes, smartctl runs  *)
(***************************************************************************)
Disk(device) == [device |-> device]

LayoutEntry(size, disks, virtual, raidLabel, raidName) ==
    [size |-> size, disks |-> disks, virtual |-> virtual,
     raidLabel |-> raidLabel, raidName |-> raidName]

Block(name, device, label, uuid, type, fsType, mount) ==
    [name |-> name, device |-> device, label |-> label, uuid |-> uuid,
     type |-> type, fsType |-> fsType, mount |-> mount]

FsSize(fs, mount, type, used, size) ==
    [fs |-> fs, mount |-> mount, type |-> type, used |-> used, size |-> size]

E_pair == LayoutEntry(1000, <<Disk(S_sda), Disk(S_dev_sda), Disk(S_sdb)>>, FALSE,
                      UndefinedStr, UndefinedStr)
E_sda == LayoutEntry(500, <<Disk(S_sda)>>, FALSE, UndefinedStr, UndefinedStr)
E_dev_sda == LayoutEntry(900, <<Disk(S_dev_sda)>>, FALSE, UndefinedStr, UndefinedStr)
E_sdb == LayoutEntry(300, <<Disk(S_sdb)>>, FALSE, UndefinedStr, UndefinedStr)
E_nvme == LayoutEntry(2000, <<Disk(S_nvme)>>, FALSE, UndefinedStr, UndefinedStr)
E_virtual == LayoutEntry(700, <<Disk(S_overlay)>>, TRUE, UndefinedStr, UndefinedStr)
E_raid == LayoutEntry(4000, <<>>, FALSE, S_raid, S_md0)
E_mixed == LayoutEntry(800, <<Disk(S_SDA), Disk(S_nvme)>>, FALSE, UndefinedStr,
                       UndefinedStr)

B_sda == Block(S_sda, S_dev_sda, <<>>, <<>>, "disk", "", <<>>)
B_sda1 == Block(S_sda1, S_dev_sda, <<>>, S_u1, "part", "ext4", S_mnt_boot)
B_sdb1 == Block(S_sdb1, S_dev_sdb, <<>>, S_u2, "part", "ext4", <<>>)
B_sdb1_lvm == Block(S_sdb1, S_dev_sdb, <<>>, S_u2, "part", "LVM2_member", <<>>)
B_md0 == Block(S_md0, S_dev_md0, S_raid, S_u2, "md", "xfs", S_mnt_data)

Z_root == FsSize(S_overlay, S_mnt_root, "overlay", 50, 120)
Z_sda1 == FsSize(S_dev_sda1, S_mnt_boot, "ext4", 300, 400)
Z_sdb1 == FsSize(S_dev_sdb1, S_mnt_data, "ext4", 200, 1200)
Z_uuid == FsSize(S_dev_md0, HostRoot \o S_mnt_uuid, "xfs", 900, 1500)
Z_cifs == FsSize(S_dev_sdb1, S_mnt_data, "cifs", 10, 20)

\* smartctl -A: attribute 194 with a raw value; a line of another attribute
AttrLine(id, name, raw) == [id |-> id, name |-> name, raw |-> raw]

A_40 == <<AttrLine("9", "Power_On_Hours", <<"1", "2">>),
          AttrLine("194", "Temperature_Celsius", <<"4", "0">>)>>
A_55 == <<AttrLine("194", "Temperature_Internal", <<"-">>),
          AttrLine("194", "Temperature_Celsius", <<"5", "5">>)>>
A_none == <<AttrLine("9", "Power_On_Hours", <<"1", "2">>)>>

HealthOut(phrase, token) == [phrase |-> phrase, token |-> token]

H_passed == HealthOut(TRUE, PASSED)
H_failed == HealthOut(TRUE, <<"f", "a", "i", "l", "e", "d">>)
H_other == HealthOut(TRUE, <<"U", "N", "K", "N", "O", "W", "N">>)
H_none == HealthOut(FALSE, <<>>)

ToolRun(aOk, a, hOk, h) == [aOk |-> aOk, a |-> a, hOk |-> hOk, h |-> h]

\* what one pair of smartctl processes can do: both exit 0 with some output, or
\* one of them fails (cannot be spawned, exits non-zero)
ToolRuns ==
    { ToolRun(TRUE, A_40, TRUE, H_passed),
      ToolRun(TRUE, A_55, TRUE, H_failed),
      ToolRun(TRUE, A_none, TRUE, H_other),
      ToolRun(TRUE, A_none, TRUE, H_none),
      ToolRun(FALSE, <<>>, TRUE, H_passed),
      ToolRun(TRUE, A_40, FALSE, H_none) }

Snapshot(blocks, sizes) == [blocks |-> blocks, sizes |-> sizes]

CoreSnapshots ==
    { Snapshot(<<B_sda, B_sda1, B_sdb1>>, <<Z_root, Z_sda1, Z_sdb1>>),
      Snapshot(<<>>, <<>>) }

CoreLayouts ==
    { <<E_pair, E_nvme>>,
      <<E_sda, E_dev_sda>>,
      <<E_mixed>>,
      <<E_virtual, E_raid, E_sdb>>,
      <<>> }

\* the getMappedLayout invocations that can be in flight
Mappers == {"A"}

MaxTicks == 3

\* how far the clock moves between two events
ClockSteps == {1, SMART_CACHE_DURATION_MS - 1}

(***************************************************************************)
(* The server: clock, poll cycle, smartctl                                 *)
(***************************************************************************)
Undefined == [defined |-> FALSE, value |-> <<>>]

Defined(value) == [defined |-> TRUE, value |-> value]

NoResponse == [route |-> "none"]

ClientIdle == [pc |-> "idle", requests |-> <<>>]

\* the sockets that may connect; seen lists the values obs.storage handed to the
\* socket's subscriber, events what socket.emit was called with
Sockets == {"s1", "s2"}

\* values handed to one socket at most
MaxEmits == 2

NoSockets ==
    [s \in Sockets |-> [status |-> "none", subscribed |-> FALSE, seen |-> <<>>,
                        events |-> <<>>]]

Init ==
    /\ now = 0
    /\ ticks = 0
    /\ smartDataCache = <<>>
    /\ layout \in CoreLayouts
    /\ hostWin32 = FALSE
    /\ enable_smart_temps \in BOOLEAN
    /\ mappers = [m \in Mappers |-> Idle]
    /\ lastFailure = <<>>
    /\ storage = Undefined
    /\ response = NoResponse
    /\ client = ClientIdle
    /\ sockets = NoSockets

\* time passes
Tick(d) ==
    /\ ticks < MaxTicks
    /\ now' = now + d
    /\ ticks' = ticks + 1
    /\ UNCHANGED <<smartDataCache, layout, hostWin32, enable_smart_temps, mappers,
                   lastFailure, protoVars>>

\* new DynamicStorageMapper(...).getMappedLayout(), up to the first event it waits
\* for: every entry's callback runs to its await, every getSmartData to its own
GetMappedLayout(m, snap) ==
    /\ mappers[m].status = "idle"
    /\ LET calls == [i \in DOMAIN layout |->
                        EntryCalls(smartDataCache, lastFailure, enable_smart_temps,
                                   layout[i], now)]
           fresh == [status |-> IF layout = <<>> THEN "done" ELSE "running",
                     blocks |-> snap.blocks, sizes |-> snap.sizes,
                     calls |-> calls,
                     results |-> [i \in DOMAIN layout |-> Pending],
                     finished |-> <<>>]
       IN  mappers' = [mappers EXCEPT ![m] = FinishFrom(hostWin32, layout, fresh, 1)]
    /\ UNCHANGED <<now, ticks, smartDataCache, layout, hostWin32, enable_smart_temps,
                   lastFailure, protoVars>>

\* the getSmartData calls of the invocations in flight, as <<mapper, entry, candidate>>
CallIds ==
    UNION {UNION {{<<m, i, k>> : k \in DOMAIN mappers[m].calls[i]} :
                     i \in DOMAIN mappers[m].calls} : m \in DOMAIN mappers}

CallOf(id) == mappers[id[1]].calls[id[2]][id[3]]

PendingFor(devicePath) ==
    {id \in CallIds : CallOf(id).state = "pending" /\ CallOf(id).path = devicePath}

\* the smartctl pair of call k of entry i ends with res: getSmartData resumes, and
\* with its last record the entry's callback, and with the last entry the mapper
SmartctlExit(m, i, k, res) ==
    /\ mappers[m].status \in {"running", "rejected"}
    /\ mappers[m].calls[i][k].state = "pending"
    /\ mappers[m].calls[i][k].tool = "running"
    /\ LET call == mappers[m].calls[i][k]
           out == GetSmartDataSettle(call, res)
           settled == [mappers[m] EXCEPT
                          !.calls[i][k].state = out.state,
                          !.calls[i][k].value = out.value,
                          !.calls[i][k].tool = IF res.aOk /\ res.hOk THEN "ok" ELSE "failed"]
       IN  /\ smartDataCache' = IF out.store = NoEntry THEN smartDataCache
                                ELSE CacheSet(smartDataCache, call.path, out.store)
           /\ lastFailure' =
                  IF res.aOk /\ res.hOk THEN lastFailure
                  ELSE CacheSet(lastFailure, call.path,
                                [timestamp |-> call.start,
                                 alone |-> PendingFor(call.path) = {<<m, i, k>>},
                                 stored |-> CacheGet(smartDataCache', call.path)])
           /\ mappers' = [mappers EXCEPT ![m] = FinishEntry(hostWin32, layout, settled, i)]
    /\ UNCHANGED <<now, ticks, layout, hostWin32, enable_smart_temps, protoVars>>

\* the promise of getMappedLayout is fulfilled with the array: the mapper is dropped
Return(m) ==
    /\ mappers[m].status = "done"
    /\ mappers' = [mappers EXCEPT ![m] = Idle]
    /\ UNCHANGED <<now, ticks, smartDataCache, layout, hostWin32, enable_smart_temps,
                   lastFailure, protoVars>>

Next ==
    \/ \E d \in ClockSteps : Tick(d)
    \/ \E m \in Mappers, snap \in CoreSnapshots : GetMappedLayout(m, snap)
    \/ \E id \in CallIds, res \in ToolRuns : SmartctlExit(id[1], id[2], id[3], res)
    \/ \E m \in Mappers : Return(m)

Spec == Init /\ [][Next]_vars

(***************************************************************************)
(* Properties of the server                                                *)
(***************************************************************************)
DoneMappers == {m \in DOMAIN mappers : mappers[m].status = "done"}

\* the records getSmartData returned to entry i of mapper m
RecordsOf(m, i) == {mappers[m].calls[i][k].value : k \in DOMAIN mappers[m].calls[i]}

\* C1: whatever the layout, the snapshot and the order in which the probes end,
\* the array getMappedLayout returns has one element per layout entry, and element
\* i is the one computed from layout entry i and from the records of its own disks.
C1_OutputAlignedWithLayout ==
    \A m \in DoneMappers :
        /\ Len(mappers[m].results) = Len(layout)
        /\ \A i \in 1..Len(layout) :
               mappers[m].results[i] =
                   EntryResult(hostWin32, mappers[m].blocks, mappers[m].sizes,
                               layout[i], mappers[m].calls[i])

\* C1 witness: a returned array of two different elements whose second entry's
\* callback returned before the first one's
C1_Witness ==
    \E m \in DoneMappers :
        /\ mappers[m].finished = <<2, 1>>
        /\ mappers[m].results[1] # mappers[m].results[2]
        /\ \A i \in {1, 2} : \E k \in DOMAIN mappers[m].calls[i] :
               mappers[m].calls[i][k].tool = "ok"

\* C2: a getSmartData call that finds a stored record for its path returns that
\* record without running smartctl when it starts less than 60 s after the record's
\* timestamp, and runs smartctl again when it starts 60 s or more after it; the
\* stored record may be a successful one or the empty one of a failure.
C2_CacheWindow ==
    \A id \in CallIds :
        LET c == CallOf(id)
        IN  c.seen # NoEntry =>
                IF c.start - c.seen.timestamp < 60 * 1000
                THEN /\ ~c.invoked
                     /\ c.tool = "none"
                     /\ c.value = [key \in DOMAIN c.seen \ {"timestamp"} |-> c.seen[key]]
                ELSE c.invoked /\ c.tool # "none"

\* C2 witness: a call served the empty record of a failure 59.999 s after its
\* timestamp, next to one served a record that holds data
C2_Witness ==
    \E id1, id2 \in CallIds :
        /\ CallOf(id1).seen = [timestamp |-> CallOf(id1).start - 59999]
        /\ ~CallOf(id1).invoked
        /\ CallOf(id2).seen # NoEntry
        /\ "temperature" \in DOMAIN CallOf(id2).seen
        /\ ~CallOf(id2).invoked

\* a call whose smartctl pair failed returned the record with no field, and the
\* catch branch left the empty record, stamped with the call's start, in the cache
FailureStoresEmpty ==
    /\ \A id \in CallIds :
           CallOf(id).tool = "failed" =>
               CallOf(id).state = "fulfilled" /\ CallOf(id).value = NoEntry
    /\ \A devicePath \in DOMAIN lastFailure :
           lastFailure[devicePath].stored =
               [timestamp |-> lastFailure[devicePath].timestamp]

\* C3 as stated: after a failure for a path, every later call for that path that
\* starts within the TTL of the stored timestamp returns the all-unknown record
\* without running smartctl.
C3_Original ==
    /\ FailureStoresEmpty
    /\ \A id \in CallIds :
           LET c == CallOf(id)
           IN  (c.failSeen # NoEntry /\ c.start - c.failSeen.timestamp < 60 * 1000)
                   => ~c.invoked /\ c.value = NoEntry

\* C3 as amended: the same, provided no other getSmartData call for that path was
\* still in flight when the empty record was stored (such a call overwrites it).
C3_FailureCachedUnlessOverlapped ==
    /\ FailureStoresEmpty
    /\ \A id \in CallIds :
           LET c == CallOf(id)
           IN  (/\ c.failSeen # NoEntry
                /\ c.failSeen.alone
                /\ c.start - c.failSeen.timestamp < 60 * 1000)
                   => ~c.invoked /\ c.value = NoEntry

\* C3 witness: a call that started 59.999 s after the timestamp of a failure that
\* no other call overlapped
C3_Witness ==
    \E id \in CallIds :
        /\ CallOf(id).failSeen # NoEntry
        /\ CallOf(id).failSeen.alone
        /\ CallOf(id).start - CallOf(id).failSeen.timestamp = 59999
        /\ ~CallOf(id).invoked

\* C4: no smartctl failure makes getSmartData or getMappedLayout reject: every
\* invocation that has ended returned one element per layout entry, each with its
\* load, and an entry all of whose probes failed only lacks the SMART fields.
C4_ToolFailureNeverRejects ==
    /\ \A id \in CallIds : CallOf(id).state # "rejected"
    /\ \A m \in Mappers :
           /\ mappers[m].status # "rejected"
           /\ (mappers[m].status = "running" /\ Len(layout) > 0) =>
                  \E id \in CallIds : id[1] = m /\ CallOf(id).state = "pending"
           /\ mappers[m].status = "done" =>
                  /\ Len(mappers[m].results) = Len(layout)
                  /\ \A i \in 1..Len(layout) :
                         /\ "load" \in DOMAIN mappers[m].results[i]
                         /\ (\A k \in DOMAIN mappers[m].calls[i] :
                                 mappers[m].calls[i][k].tool = "failed")
                                => DOMAIN mappers[m].results[i] = {"load"}

\* C4 witness: a returned array one of whose entries had a failing probe next to a
\* probe that reported data
C4_Witness ==
    \E m \in DoneMappers : \E i \in 1..Len(layout) :
        /\ \E k \in DOMAIN mappers[m].calls[i] : mappers[m].calls[i][k].tool = "failed"
        /\ \E k \in DOMAIN mappers[m].calls[i] : mappers[m].calls[i][k].tool = "ok"
        /\ "temperature" \in DOMAIN mappers[m].results[i]

PollingEnabled(entry) == enable_smart_temps /\ Len(entry.disks) > 0

KnownTemps(m, i) == {r.temperature : r \in {x \in RecordsOf(m, i) : "temperature" \in DOMAIN x}}

\* C8: the temperature of an entry with polling enabled is the greatest known
\* temperature among the records of its candidates, and is omitted exactly when
\* none of them has one.
C8_TemperatureIsMaxKnown ==
    \A m \in DoneMappers : \A i \in 1..Len(layout) :
        PollingEnabled(layout[i]) =>
            LET out == mappers[m].results[i]
            IN  /\ ("temperature" \in DOMAIN out) <=> (KnownTemps(m, i) # {})
                /\ "temperature" \in DOMAIN out =>
                       /\ out.temperature \in KnownTemps(m, i)
                       /\ \A t \in KnownTemps(m, i) : t <= out.temperature

\* C8 witness: an entry whose first candidate reported 40 and whose second reported
\* 55, so that the first known temperature is not the greatest
C8_Witness ==
    \E m \in DoneMappers : \E i \in 1..Len(layout) :
        /\ PollingEnabled(layout[i])
        /\ Len(mappers[m].calls[i]) = 2
        /\ mappers[m].calls[i][1].value = [temperature |-> 40, overallStatus |-> PASSED,
                                           healthy |-> TRUE]
        /\ "temperature" \in DOMAIN mappers[m].calls[i][2].value
        /\ mappers[m].calls[i][2].value.temperature = 55
        /\ mappers[m].results[i].temperature = 55

StatusesOf(m, i) ==
    {r.overallStatus : r \in {x \in RecordsOf(m, i) : "overallStatus" \in DOMAIN x}}

\* C9: FAILED on any candidate gives FAILED and healthy false; otherwise PASSED on
\* any candidate gives PASSED and healthy true; otherwise both are omitted.  The
\* set of the statuses decides, not their order.
C9_FailedDominatesPassed ==
    \A m \in DoneMappers : \A i \in 1..Len(layout) :
        PollingEnabled(layout[i]) =>
            LET out == mappers[m].results[i]
                health == [key \in DOMAIN out \cap {"overallStatus", "healthy"} |-> out[key]]
            IN  IF FAILED \in StatusesOf(m, i)
                THEN health = [overallStatus |-> FAILED, healthy |-> FALSE]
                ELSE IF PASSED \in StatusesOf(m, i)
                THEN health = [overallStatus |-> PASSED, healthy |-> TRUE]
                ELSE health = NoEntry

\* C9 witness: an entry whose first candidate reported PASSED and whose second
\* reported FAILED
C9_Witness ==
    \E m \in DoneMappers : \E i \in 1..Len(layout) :
        /\ PollingEnabled(layout[i])
        /\ Len(mappers[m].calls[i]) = 2
        /\ HasStatus(mappers[m].calls[i][1].value, PASSED)
        /\ HasStatus(mappers[m].calls[i][2].value, FAILED)
        /\ mappers[m].results[i].healthy = FALSE

(***************************************************************************)
(* The wire: JSON values and response bodies                               *)
(*                                                                         *)
(* A JSON value carries its type: num, str, bool, null, arr, obj.  A body  *)
(* is the empty text, a text that JSON.parse accepts (kept as the value it *)
(* parses to) or a text that JSON.parse rejects.                           *)
(***************************************************************************)
JNum(n) == [t |-> "num", v |-> n]
JStr(x) == [t |-> "str", v |-> x]
JBool(b) == [t |-> "bool", v |-> b]
JNull == [t |-> "null"]
JArr(items) == [t |-> "arr", v |-> items]
JObj(fields) == [t |-> "obj", v |-> fields]

EmptyBody == [kind |-> "empty"]
JsonBody(value) == [kind |-> "json", value |-> value]
GarbageBody == [kind |-> "garbage"]

\* JSON.stringify of one StorageLoadExtendedEntry: a property that is undefined is
\* left out
EntryToJson(entry) ==
    JObj([key \in DOMAIN entry |->
             IF key \in {"load", "temperature"} THEN JNum(entry[key])
             ELSE IF key = "healthy" THEN JBool(entry[key])
             ELSE JStr(entry[key])])

\* res.send(value): no body for undefined, the JSON text otherwise
Send(json) == IF json.defined THEN JsonBody(json.value) ELSE EmptyBody

\* JSON.parse: the value, or a SyntaxError
JSONparse(body) ==
    IF body.kind = "json" THEN [ok |-> TRUE, value |-> body.value] ELSE [ok |-> FALSE]

(***************************************************************************)
(* index.ts: the two storage routes                                        *)
(***************************************************************************)
\* storage as unknown as LegacyStorageLoadItem[]: each item with its typeof; what
\* getMappedLayout returns holds objects only
AsLegacyItems(items) == [i \in DOMAIN items |-> [typeof |-> "object", value |-> items[i]]]

toLegacyStorageLoad_DropUnmounted(items) ==
    LET loads == [i \in DOMAIN items |->
                     IF items[i].typeof = "number" THEN items[i].value
                     ELSE items[i].value.load]
    IN  SelectSeq(loads, LAMBDA n : n # -1)

toLegacyStorageLoad(items) ==
    [i \in DOMAIN items |->
        IF items[i].typeof = "number" THEN items[i].value ELSE items[i].value.load]

SocketEvent(name, data) == [name |-> name, data |-> data]

OnStorage_ExtendedOnly(sock, value) ==
    [sock EXCEPT !.seen = Append(@, value),
                 !.events = Append(@, SocketEvent("storage-load-extended", value))]

\* the subscriber of obs.storage in io.on('connection')
OnStorage(sock, value) ==
    [sock EXCEPT
        !.seen = Append(@, value),
        !.events = @ \o <<SocketEvent("storage-load",
                                      toLegacyStorageLoad(AsLegacyItems(value))),
                          SocketEvent("storage-load-extended", value)>>]

\* router.get('/load/storage'), given what getCurrentValue(obs.storage) returned
RouteLoadStorage(current) ==
    Send(IF current.defined
         THEN LET loads == toLegacyStorageLoad(AsLegacyItems(current.value))
              IN  Defined(JArr([i \in DOMAIN loads |-> JNum(loads[i])]))
         ELSE Undefined)

\* router.get('/load/storage-extended')
RouteLoadStorageExtended(current) ==
    Send(IF current.defined
         THEN Defined(JArr([i \in DOMAIN current.value |-> EntryToJson(current.value[i])]))
         ELSE Undefined)

\* getCurrentValue(obs.storage): the current value, or undefined when none came
\* within the timeout
CurrentValues == {storage, Undefined}

(***************************************************************************)
(* Homarr: getCurrentStorageLoadAsync                                      *)
(***************************************************************************)
IsExtendedItem(item) ==
    item.t = "obj" /\ "load" \in DOMAIN item.v /\ item.v.load.t = "num"

\* Array.isArray(extendedData) && extendedData.every(...)
IsExtendedPayload(data) ==
    data.t = "arr" /\ \A i \in DOMAIN data.v : IsExtendedItem(data.v[i])

ExtendedPath == "/load/storage-extended"
LegacyPath == "/load/storage"

\* the request of the extended endpoint
ClientRequestExtended ==
    [pc |-> "awaitExtended", requests |-> <<ExtendedPath>>]

ClientOnExtended_ThenLegacy(c, body) ==
    LET seen == c @@ [extended |-> body]
    IN  IF body.kind = "garbage" THEN [seen EXCEPT !.pc = "rejected"]
        ELSE [seen EXCEPT !.pc = "awaitLegacy", !.requests = Append(@, LegacyPath)]

\* from the extended body to the return, the throw or the request of the legacy
\* endpoint
ClientOnExtended(c, body) ==
    LET seen == c @@ [extended |-> body]
    IN  IF body.kind # "empty"
        THEN LET parsed == JSONparse(body)
             IN  IF ~parsed.ok
                 THEN [seen EXCEPT !.pc = "rejected"]
                 ELSE IF IsExtendedPayload(parsed.value)
                 THEN [seen EXCEPT !.pc = "done"] @@ [result |-> parsed.value.v]
                 ELSE [seen EXCEPT !.pc = "awaitLegacy",
                                   !.requests = Append(@, LegacyPath)]
        ELSE [seen EXCEPT !.pc = "awaitLegacy", !.requests = Append(@, LegacyPath)]

ClientOnLegacy_Bare(c, body) ==
    LET seen == c @@ [legacy |-> body]
    IN  IF body.kind = "empty"
        THEN [seen EXCEPT !.pc = "done"] @@ [result |-> <<>>]
        ELSE LET parsed == JSONparse(body)
             IN  IF ~parsed.ok \/ parsed.value.t # "arr"
                 THEN [seen EXCEPT !.pc = "rejected"]
                 ELSE [seen EXCEPT !.pc = "done"] @@ [result |-> parsed.value.v]

\* from the legacy body to the return or the throw: JSON.parse and .map throw on
\* a text that is no JSON and on a value that is no array
ClientOnLegacy(c, body) ==
    LET seen == c @@ [legacy |-> body]
    IN  IF body.kind = "empty"
        THEN [seen EXCEPT !.pc = "done"] @@ [result |-> <<>>]
        ELSE LET parsed == JSONparse(body)
             IN  IF ~parsed.ok \/ parsed.value.t # "arr"
                 THEN [seen EXCEPT !.pc = "rejected"]
                 ELSE [seen EXCEPT !.pc = "done"]
                          @@ [result |-> [i \in DOMAIN parsed.value.v |->
                                             JObj([load |-> parsed.value.v[i]])]]

(***************************************************************************)
(* Inputs of the protocol                                                  *)
(***************************************************************************)
MaxStorageLen == 2

X_unmounted == [load |-> -1]
X_healthy == [load |-> 100, temperature |-> 40, overallStatus |-> PASSED, healthy |-> TRUE]
X_failing == [load |-> 0, overallStatus |-> FAILED, healthy |-> FALSE]

ExtendedEntries == {X_unmounted, X_healthy, X_failing}

\* the arrays getMappedLayout can return
StorageValues == UNION {[1..n -> ExtendedEntries] : n \in 0..MaxStorageLen}

\* the arrays obs.storage emits while the model runs; the value current at start is
\* any of StorageValues
EmittedValues == {<<>>, <<X_healthy, X_unmounted>>, <<X_failing>>}

\* bodies of a DashDot that is not this overlay, or of what stands in front of it:
\* the 404 page of a server without the route, and JSON of other shapes
J_numbers == JArr(<<JNum(100), JNum(-1)>>)

ForeignExtendedBodies ==
    { GarbageBody,
      JsonBody(JNull),
      JsonBody(J_numbers),
      JsonBody(JArr(<<JObj([load |-> JStr("100")])>>)),
      JsonBody(JArr(<<JObj([load |-> JNum(100), temperature |-> JNull])>>)) }

ForeignLegacyBodies == {GarbageBody, JsonBody(JNull), JsonBody(J_numbers)}

(***************************************************************************)
(* The protocol: the observable, the routes, the client                    *)
(***************************************************************************)
InitProto ==
    /\ now = 0
    /\ ticks = 0
    /\ smartDataCache = <<>>
    /\ layout = <<>>
    /\ hostWin32 = FALSE
    /\ enable_smart_temps = TRUE
    /\ mappers = [m \in Mappers |-> Idle]
    /\ lastFailure = <<>>
    /\ storage \in {Undefined} \cup {Defined(v) : v \in StorageValues}
    /\ response = NoResponse
    /\ client = ClientIdle
    /\ sockets = NoSockets

\* obs.storage emits the value of a poll cycle
Emit(value) ==
    /\ \A s \in Sockets : sockets[s].subscribed => Len(sockets[s].seen) < MaxEmits
    /\ storage' = Defined(value)
    /\ sockets' = [s \in Sockets |->
                       IF sockets[s].subscribed THEN OnStorage(sockets[s], value)
                       ELSE sockets[s]]
    /\ UNCHANGED <<serverVars, response, client>>

GetLoadStorage(current) ==
    /\ response' = [route |-> LegacyPath, from |-> current,
                    body |-> RouteLoadStorage(current)]
    /\ UNCHANGED <<serverVars, storage, client, sockets>>

GetLoadStorageExtended(current) ==
    /\ response' = [route |-> ExtendedPath, from |-> current,
                    body |-> RouteLoadStorageExtended(current)]
    /\ UNCHANGED <<serverVars, storage, client, sockets>>

\* getCurrentStorageLoadAsync is called: the extended endpoint is requested
ClientCall ==
    /\ client.pc \in {"idle", "done", "rejected"}
    /\ client' = ClientRequestExtended
    /\ UNCHANGED <<serverVars, storage, response, sockets>>

\* the text of the extended response is there
ClientExtendedBody(body) ==
    /\ client.pc = "awaitExtended"
    /\ client' = ClientOnExtended(client, body)
    /\ UNCHANGED <<serverVars, storage, response, sockets>>

\* the text of the legacy response is there
ClientLegacyBody(body) ==
    /\ client.pc = "awaitLegacy"
    /\ client' = ClientOnLegacy(client, body)
    /\ UNCHANGED <<serverVars, storage, response, sockets>>

NextProto ==
    \/ \E value \in EmittedValues : Emit(value)
    \/ \E current \in CurrentValues : GetLoadStorage(current)
    \/ \E current \in CurrentValues : GetLoadStorageExtended(current)
    \/ ClientCall
    \/ \E body \in {RouteLoadStorageExtended(current) : current \in CurrentValues}
                       \cup ForeignExtendedBodies : ClientExtendedBody(body)
    \/ \E body \in {RouteLoadStorage(current) : current \in CurrentValues}
                       \cup ForeignLegacyBodies : ClientLegacyBody(body)

SpecProto == InitProto /\ [][NextProto]_vars

(***************************************************************************)
(* Properties of the protocol                                              *)
(***************************************************************************)
\* C5: the body of GET /load/storage is the array of the loads of the value it was
\* served from: same length, element i the load of entry i, -1 kept where it is;
\* it agrees index by index with what GET /load/storage-extended sends for the
\* same value.
C5_LegacyIsProjection ==
    (response.route # "none" /\ response.from.defined) =>
        LET entries == response.from.value
            sent == response.body
            extended == RouteLoadStorageExtended(response.from)
        IN  /\ sent.kind = "json"
            /\ sent.value.t = "arr"
            /\ Len(sent.value.v) = Len(entries)
            /\ response.route = LegacyPath =>
                   \A i \in 1..Len(entries) :
                       /\ sent.value.v[i] = [t |-> "num", v |-> entries[i].load]
                       /\ sent.value.v[i] = extended.value.v[i].v.load
            /\ response.route = ExtendedPath =>
                   \A i \in 1..Len(entries) :
                       sent.value.v[i].v.load = [t |-> "num", v |-> entries[i].load]

\* C5 witness: the legacy body [100, -1] served from an array whose second entry
\* is not mounted
C5_Witness ==
    /\ response.route = LegacyPath
    /\ response.from = Defined(<<X_healthy, X_unmounted>>)
    /\ response.body = JsonBody(JArr(<<JNum(100), JNum(-1)>>))

IsNumberArray(json) == json.t = "arr" /\ \A i \in DOMAIN json.v : json.v[i].t = "num"

\* the legacy body, if it is empty or a numeric array, made the call return the
\* numbers each wrapped as {load: n} and nothing else
LegacyWrapped ==
    ("legacy" \in DOMAIN client) =>
        /\ client.legacy.kind = "empty" =>
               client.pc = "done" /\ client.result = <<>>
        /\ (client.legacy.kind = "json" /\ IsNumberArray(client.legacy.value)) =>
               /\ client.pc = "done"
               /\ Len(client.result) = Len(client.legacy.value.v)
               /\ \A i \in 1..Len(client.result) :
                      /\ client.result[i].t = "obj"
                      /\ DOMAIN client.result[i].v = {"load"}
                      /\ client.result[i].v.load = client.legacy.value.v[i]

\* C6: after an empty extended body the client requests the legacy endpoint; a
\* legacy body [n1..nk] gives [{load: n1}..{load: nk}] with no other field, an
\* empty legacy body gives the empty array, not an error.
C6_EmptyExtendedFallsBack ==
    ("extended" \in DOMAIN client /\ client.extended.kind = "empty") =>
        /\ client.requests = <<ExtendedPath, LegacyPath>>
        /\ client.pc # "rejected" \/ "legacy" \in DOMAIN client
        /\ LegacyWrapped

\* C6 witness: the extended body was empty and the legacy body [100, -1] came back
\* as [{load: 100}, {load: -1}]
C6_Witness ==
    /\ client.pc = "done"
    /\ client.extended = EmptyBody
    /\ client.legacy = JsonBody(J_numbers)
    /\ client.result = <<JObj([load |-> JNum(100)]), JObj([load |-> JNum(-1)])>>

\* the extended body is not empty and is no array of objects with a numeric load
ExtendedMismatch ==
    /\ "extended" \in DOMAIN client
    /\ client.extended.kind # "empty"
    /\ ~(client.extended.kind = "json" /\ IsExtendedPayload(client.extended.value))

\* C7 as stated: after a non-empty extended body of another shape, or one that
\* does not decode, the client requests the legacy endpoint and returns its
\* wrapped result; the mismatch never makes the call throw.
C7_Original ==
    ExtendedMismatch =>
        /\ client.requests = <<ExtendedPath, LegacyPath>>
        /\ client.pc # "rejected" \/ "legacy" \in DOMAIN client
        /\ LegacyWrapped

(***************************************************************************)
(* The load alone: one entry against every choice of block devices and     *)
(* filesystem sizes, SMART polling off                                     *)
(***************************************************************************)
BlockPool == <<B_sda, B_sda1, B_sdb1, B_sdb1_lvm, B_md0>>

SizePool == <<Z_root, Z_sda1, Z_sdb1, Z_uuid, Z_cifs>>

\* the elements of pool at the indices in keep, in order
Pick(pool, keep) ==
    LET RECURSIVE From(_)
        From(i) == IF i > Len(pool) THEN <<>>
                   ELSE (IF i \in keep THEN <<pool[i]>> ELSE <<>>) \o From(i + 1)
    IN  From(1)

LoadSnapshots ==
    {Snapshot(Pick(BlockPool, bs), Pick(SizePool, zs)) :
        bs \in SUBSET DOMAIN BlockPool, zs \in SUBSET DOMAIN SizePool}

LoadLayouts ==
    {<<E_pair>>, <<E_sda>>, <<E_dev_sda>>, <<E_sdb>>, <<E_nvme>>, <<E_virtual>>,
     <<E_raid>>}

InitLoad ==
    /\ now = 0
    /\ ticks = 0
    /\ smartDataCache = <<>>
    /\ layout \in LoadLayouts
    /\ hostWin32 \in BOOLEAN
    /\ enable_smart_temps = FALSE
    /\ mappers = [m \in Mappers |-> Idle]
    /\ lastFailure = <<>>
    /\ storage = Undefined
    /\ response = NoResponse
    /\ client = ClientIdle
    /\ sockets = NoSockets

NextLoad ==
    \/ \E m \in Mappers, snap \in LoadSnapshots : GetMappedLayout(m, snap)
    \/ \E m \in Mappers : Return(m)

SpecLoad == InitLoad /\ [][NextLoad]_vars

(***************************************************************************)
(* Properties of the load                                                  *)
(***************************************************************************)
\* the sum of a field over a sequence of records
Total(records, key) ==
    LET RECURSIVE Upto(_)
        Upto(n) == IF n = 0 THEN 0 ELSE Upto(n - 1) + records[n][key]
    IN  Upto(Len(records))

\* the filesystem-size records matched for entry i of mapper m, and its devices
MatchedOf(m, i) ==
    LET deviceBlocks == DeviceBlocksOf(hostWin32, mappers[m].blocks, layout[i])
    IN  MatchedSizes(hostWin32, getValidSizes(hostWin32, mappers[m].sizes),
                     deviceBlocks, IsHostOf(hostWin32, deviceBlocks))

IsLvmOf(m, i) ==
    \E k \in DOMAIN DeviceBlocksOf(hostWin32, mappers[m].blocks, layout[i]) :
        DeviceBlocksOf(hostWin32, mappers[m].blocks, layout[i])[k].fsType = "LVM2_member"

\* C10: a non-virtual entry with at least one matched record has load = sum of
\* used when a backing device is an LVM2_member, and otherwise sum of used plus
\* max(0, entry size - sum of size): the correction is never negative.
C10_LoadIsUsedPlusPreAllocated ==
    \A m \in DoneMappers : \A i \in 1..Len(layout) :
        (~layout[i].virtual /\ MatchedOf(m, i) # <<>>) =>
            LET used == Total(MatchedOf(m, i), "used")
                available == Total(MatchedOf(m, i), "size")
                load == mappers[m].results[i].load
            IN  IF IsLvmOf(m, i) THEN load = used
                ELSE /\ load >= used
                     /\ layout[i].size >= available => load = used + layout[i].size - available
                     /\ layout[i].size < available => load = used

\* C10 witness: an entry of size 300 whose matched record has used 200 of 1200,
\* with no LVM device: the difference is negative and the load is 200
C10_Witness ==
    \E m \in DoneMappers :
        /\ layout = <<E_sdb>>
        /\ ~IsLvmOf(m, 1)
        /\ MatchedOf(m, 1) = <<Z_sdb1>>
        /\ mappers[m].results[1].load = 200

\* C11: a non-virtual entry backed by no block device, or whose devices match no
\* valid filesystem-size record, has load -1; and no other entry has load -1.
C11_SentinelIffUnmatched ==
    \A m \in DoneMappers : \A i \in 1..Len(layout) :
        LET load == mappers[m].results[i].load
            deviceBlocks == DeviceBlocksOf(hostWin32, mappers[m].blocks, layout[i])
        IN  /\ (~layout[i].virtual /\ deviceBlocks = <<>>) => load = -1
            /\ (~layout[i].virtual /\ MatchedOf(m, i) = <<>>) => load = -1
            /\ load = -1 => (~layout[i].virtual /\ MatchedOf(m, i) = <<>>)

\* C11 witness: every block device and every size is there, none belongs to the
\* NVMe entry, and its load is -1
C11_Witness ==
    \E m \in DoneMappers :
        /\ layout = <<E_nvme>>
        /\ mappers[m].blocks = BlockPool
        /\ mappers[m].sizes = SizePool
        /\ DeviceBlocksOf(hostWin32, mappers[m].blocks, layout[1]) = <<>>
        /\ mappers[m].results[1].load = -1

(***************************************************************************)
(* Properties of the polling                                               *)
(***************************************************************************)
Letters == {LowerAlphabet[n] : n \in DOMAIN LowerAlphabet}
               \cup {UpperAlphabet[n] : n \in DOMAIN UpperAlphabet}

\* /dev/sd followed by letters only, at least one; s, d and the letters in either
\* case
IsSataPath(path) ==
    /\ Len(path) > 7
    /\ SubSeq(path, 1, 5) = <<"/", "d", "e", "v", "/">>
    /\ path[6] \in {"s", "S"}
    /\ path[7] \in {"d", "D"}
    /\ \A n \in 8..Len(path) : path[n] \in Letters

HasSataDisk(entry) ==
    \E k \in DOMAIN entry.disks :
        \/ IsSataPath(entry.disks[k].device)
        \/ IsSataPath(<<"/", "d", "e", "v", "/">> \o entry.disks[k].device)

\* C12: every getSmartData call, and so every smartctl process, is for a path
\* /dev/sd<letters>, and every key of the cache is such a path; an entry without
\* such a disk is returned with its load and nothing else.
C12_OnlySataPathsPolled ==
    /\ \A key \in DOMAIN smartDataCache : IsSataPath(key)
    /\ \A id \in CallIds : IsSataPath(CallOf(id).path)
    /\ \A m \in DoneMappers : \A i \in 1..Len(layout) :
           /\ "load" \in DOMAIN mappers[m].results[i]
           /\ ~HasSataDisk(layout[i]) => DOMAIN mappers[m].results[i] = {"load"}

\* C12 witness: polling is on, /dev/sda and /dev/sdb of the first entry were probed
\* and cached, the NVMe entry beside it made no call and has its load only
C12_Witness ==
    \E m \in DoneMappers :
        /\ enable_smart_temps
        /\ layout = <<E_pair, E_nvme>>
        /\ DOMAIN smartDataCache = {S_dev_sda, S_dev_sdb}
        /\ mappers[m].calls[1] # <<>>
        /\ mappers[m].calls[2] = <<>>
        /\ DOMAIN mappers[m].results[2] = {"load"}

\* C13: with enable_smart_temps false no getSmartData call is ever made, the cache
\* stays as it was at start (empty) and every returned entry holds its load only;
\* an entry without disks makes no call and holds its load only, whatever the flag.
C13_DisabledPollsNothing ==
    /\ ~enable_smart_temps =>
           /\ CallIds = {}
           /\ smartDataCache = <<>>
           /\ \A m \in DoneMappers : \A i \in 1..Len(layout) :
                  DOMAIN mappers[m].results[i] = {"load"}
    /\ \A m \in Mappers : \A i \in DOMAIN mappers[m].calls :
           Len(layout[i].disks) = 0 =>
               /\ mappers[m].calls[i] = <<>>
               /\ mappers[m].status = "done" => DOMAIN mappers[m].results[i] = {"load"}

\* C13 witness: polling is off, time has passed, and the mapper returned the entry
\* of sda, /dev/sda and sdb with its load only
C13_Witness ==
    \E m \in DoneMappers :
        /\ ~enable_smart_temps
        /\ ticks > 0
        /\ layout = <<E_pair, E_nvme>>
        /\ mappers[m].results[1] = [load |-> EntryLoad(hostWin32, mappers[m].blocks,
                                                       mappers[m].sizes, E_pair)]
        /\ smartDataCache = <<>>

(***************************************************************************)
(* Progress: smartctl may also never exit                                  *)
(*                                                                         *)
(* exec is called without a timeout option, so nothing ends a smartctl     *)
(* that hangs.  A call is hung when one of its two processes never exits   *)
(* and the other does not fail.  Every process that does exit has its      *)
(* callback run by the event loop, and a settled mapper returns: those are *)
(* the fairness conditions.                                                *)
(***************************************************************************)
LiveLayouts == {<<E_pair, E_nvme>>, <<E_sdb>>, <<E_virtual, E_raid, E_sdb>>}

InitLive ==
    /\ now = 0
    /\ ticks = 0
    /\ smartDataCache = <<>>
    /\ layout \in LiveLayouts
    /\ hostWin32 = FALSE
    /\ enable_smart_temps = TRUE
    /\ mappers = [m \in Mappers |-> Idle]
    /\ lastFailure = <<>>
    /\ storage = Undefined
    /\ response = NoResponse
    /\ client = ClientIdle
    /\ sockets = NoSockets

\* the smartctl pair of call k of entry i will never exit
SmartctlHang(m, i, k) ==
    /\ mappers[m].status = "running"
    /\ mappers[m].calls[i][k].state = "pending"
    /\ mappers[m].calls[i][k].tool = "running"
    /\ mappers' = [mappers EXCEPT ![m].calls[i][k].tool = "hung"]
    /\ UNCHANGED <<now, ticks, smartDataCache, layout, hostWin32, enable_smart_temps,
                   lastFailure, protoVars>>

Exits == \E id \in CallIds, res \in ToolRuns : SmartctlExit(id[1], id[2], id[3], res)

Returns == \E m \in Mappers : Return(m)

NextLive ==
    \/ \E d \in ClockSteps : Tick(d)
    \/ \E m \in Mappers, snap \in CoreSnapshots : GetMappedLayout(m, snap)
    \/ Exits
    \/ \E id \in CallIds : SmartctlHang(id[1], id[2], id[3])
    \/ Returns

SpecLive == InitLive /\ [][NextLive]_vars /\ WF_vars(Exits) /\ WF_vars(Returns)

\* C14 as stated: every getMappedLayout that was called returns, whatever smartctl
\* does.
C14_Original ==
    \A m \in Mappers : (mappers[m].status = "running") ~> (mappers[m].status = "done")

(***************************************************************************)
(* Properties of the client's result                                       *)
(***************************************************************************)
\* the call returned the extended payload
ExtendedAccepted ==
    /\ client.pc = "done"
    /\ "extended" \in DOMAIN client
    /\ "legacy" \notin DOMAIN client

\* C15 as stated: in the array returned from an accepted extended payload an element
\* has a temperature exactly if the payload's element has a numeric one, and then
\* the same.
C15_Original ==
    ExtendedAccepted =>
        LET payload == client.extended.value.v
        IN  /\ Len(client.result) = Len(payload)
            /\ \A i \in DOMAIN payload :
                   IF "temperature" \in DOMAIN payload[i].v
                          /\ payload[i].v.temperature.t = "num"
                   THEN /\ "temperature" \in DOMAIN client.result[i].v
                        /\ client.result[i].v.temperature = payload[i].v.temperature
                   ELSE "temperature" \notin DOMAIN client.result[i].v

(***************************************************************************)
(* The push channel: sockets connect, obs.storage emits, sockets leave     *)
(***************************************************************************)
InitSocket ==
    /\ now = 0
    /\ ticks = 0
    /\ smartDataCache = <<>>
    /\ layout = <<>>
    /\ hostWin32 = FALSE
    /\ enable_smart_temps = TRUE
    /\ mappers = [m \in Mappers |-> Idle]
    /\ lastFailure = <<>>
    /\ storage = Undefined
    /\ response = NoResponse
    /\ client = ClientIdle
    /\ sockets = NoSockets

\* io.on('connection'): the subscriptions are made
Connect(s) ==
    /\ sockets[s].status = "none"
    /\ sockets' = [sockets EXCEPT ![s].status = "connected", ![s].subscribed = TRUE]
    /\ UNCHANGED <<serverVars, storage, response, client>>

\* socket.on('disconnect'): every subscription is dropped
Disconnect(s) ==
    /\ sockets[s].status = "connected"
    /\ sockets' = [sockets EXCEPT ![s].status = "disconnected", ![s].subscribed = FALSE]
    /\ UNCHANGED <<serverVars, storage, response, client>>

NextSocket ==
    \/ \E s \in Sockets : Connect(s)
    \/ \E s \in Sockets : Disconnect(s)
    \/ \E value \in EmittedValues : Emit(value)

SpecSocket == InitSocket /\ [][NextSocket]_vars

(***************************************************************************)
(* Properties of the push channel                                          *)
(***************************************************************************)
\* what a socket must have been sent for the values in seen: per value the loads
\* under storage-load, then the value under storage-load-extended
RECURSIVE ExpectedEvents(_)
ExpectedEvents(seen) ==
    IF seen = <<>> THEN <<>>
    ELSE LET value == seen[Len(seen)]
         IN  ExpectedEvents(SubSeq(seen, 1, Len(seen) - 1))
                 \o << [name |-> "storage-load",
                        data |-> [i \in DOMAIN value |-> value[i].load]],
                       [name |-> "storage-load-extended", data |-> value] >>

\* C16: a connected socket is handed every value obs.storage emits and is sent, per
\* value and in this order, one storage-load with the loads and one
\* storage-load-extended with the array; a disconnected socket is sent nothing more.
C16_BothEventsPerValue ==
    [][\A s \in Sockets :
           /\ sockets'[s].events = ExpectedEvents(sockets'[s].seen)
           /\ (sockets[s].status = "connected" /\ storage' # storage) =>
                  sockets'[s].seen = Append(sockets[s].seen, storage'.value)
           /\ sockets[s].status = "disconnected" =>
                  sockets'[s].events = sockets[s].events]_vars

\* C16 witness: s1 got both events of two values, s2 left after the first value and
\* has the events of that one only
C16_Witness ==
    /\ sockets["s1"].status = "connected"
    /\ sockets["s2"].status = "disconnected"
    /\ Len(sockets["s1"].events) = 4
    /\ Len(sockets["s2"].events) = 2
    /\ sockets["s1"].events[3] =
           [name |-> "storage-load", data |-> <<100, -1>>]
    /\ sockets["s1"].events[4] =
           [name |-> "storage-load-extended", data |-> <<X_healthy, X_unmounted>>]

\* the extended body passed the client's check
ExtendedBodyAccepted ==
    /\ "extended" \in DOMAIN client
    /\ client.extended.kind = "json"
    /\ IsExtendedPayload(client.extended.value)

MissedAtStart(call) ==
    \/ call.seen = NoEntry
    \/ call.start - call.seen.timestamp >= SMART_CACHE_DURATION_MS

\* C18: every getSmartData call that misses invokes smartctl, whether or not another
\* call for its path is in flight, and a call that hits does not; the calls of one
\* layout entry are for pairwise different paths.
C18_MissesAreNotCoalesced ==
    /\ \A id \in CallIds : CallOf(id).invoked <=> MissedAtStart(CallOf(id))
    /\ \A m \in Mappers : \A i \in DOMAIN mappers[m].calls :
           \A k, l \in DOMAIN mappers[m].calls[i] :
               mappers[m].calls[i][k].path = mappers[m].calls[i][l].path => k = l

\* C18 witness: the entries sda and /dev/sda of one getMappedLayout both started a
\* smartctl pair for /dev/sda at the same instant, and both pairs are still running
C18_Witness ==
    \E m \in Mappers :
        /\ layout = <<E_sda, E_dev_sda>>
        /\ mappers[m].status = "running"
        /\ mappers[m].calls[1][1].path = S_dev_sda
        /\ mappers[m].calls[2][1].path = S_dev_sda
        /\ mappers[m].calls[1][1].tool = "running"
        /\ mappers[m].calls[2][1].tool = "running"
        /\ mappers[m].calls[1][1].start = mappers[m].calls[2][1].start

(***************************************************************************)
(* Properties of the aggregated health                                     *)
(***************************************************************************)
\* a record of entry i says healthy = false
HasUnhealthyMember(m, i) ==
    \E r \in RecordsOf(m, i) : "healthy" \in DOMAIN r /\ r.healthy = FALSE

\* C19 as stated: an entry one of whose records says healthy = false is never
\* returned with healthy = true.
C19_Original ==
    \A m \in DoneMappers : \A i \in 1..Len(layout) :
        HasUnhealthyMember(m, i) =>
            ~("healthy" \in DOMAIN mappers[m].results[i]
                  /\ mappers[m].results[i].healthy = TRUE)

(***************************************************************************)
(* Properties of the load against the polling                              *)
(***************************************************************************)
\* C20: the load of every returned entry is the value the layout entry, the block
\* devices, the sizes and the platform determine, whatever the cache held, whatever
\* the calls found and however smartctl ended: two runs that differ in those only
\* return the same loads.
C20_LoadIndependentOfSmart ==
    \A m \in DoneMappers : \A i \in 1..Len(layout) :
        mappers[m].results[i].load =
            EntryLoad(hostWin32, mappers[m].blocks, mappers[m].sizes, layout[i])

\* C20 witness: smartctl failed for /dev/sdb and the entry of sdb is returned with
\* the load 200 of its filesystem and no SMART field
C20_Witness ==
    \E m \in DoneMappers :
        /\ layout = <<E_virtual, E_raid, E_sdb>>
        /\ mappers[m].calls[3] # <<>>
        /\ mappers[m].calls[3][1].tool = "failed"
        /\ mappers[m].results[3] = [load |-> 200]

(***************************************************************************)
(* Overlapping invocations: a poll cycle starts while the getMappedLayout  *)
(* of an earlier one still waits for smartctl                              *)
(***************************************************************************)
Pollers == {"A", "B"}

OverlapLayouts == {<<E_sdb>>}

OverlapSnapshots == {Snapshot(<<B_sdb1>>, <<Z_sdb1>>)}

\* smartctl reports 40 degrees and PASSED, or 55 degrees and FAILED, or fails
OverlapRuns ==
    { ToolRun(TRUE, A_40, TRUE, H_passed),
      ToolRun(TRUE, A_55, TRUE, H_failed),
      ToolRun(FALSE, <<>>, TRUE, H_passed) }

InitOverlap ==
    /\ now = 0
    /\ ticks = 0
    /\ smartDataCache = <<>>
    /\ layout \in OverlapLayouts
    /\ hostWin32 = FALSE
    /\ enable_smart_temps = TRUE
    /\ mappers = [m \in Pollers |-> Idle]
    /\ lastFailure = <<>>
    /\ storage = Undefined
    /\ response = NoResponse
    /\ client = ClientIdle
    /\ sockets = NoSockets

NextOverlap ==
    \/ \E d \in ClockSteps : Tick(d)
    \/ \E m \in Pollers, snap \in OverlapSnapshots : GetMappedLayout(m, snap)
    \/ \E id \in CallIds, res \in OverlapRuns : SmartctlExit(id[1], id[2], id[3], res)
    \/ \E m \in Pollers : Return(m)

SpecOverlap == InitOverlap /\ [][NextOverlap]_vars

(***************************************************************************)
(* Properties of the cache under overlapping calls                         *)
(***************************************************************************)
\* C22 as stated: whenever the record of a path is replaced, the new timestamp is
\* not older than the one it replaces.
C22_Original ==
    [][\A path \in DOMAIN smartDataCache :
           smartDataCache'[path].timestamp >= smartDataCache[path].timestamp]_vars

\* C21: whenever the record of a path is written, its fields are what one call
\* returns and its timestamp is the instant that same call started; and a call that
\* returns the cached record found it less than 60000 ms after that instant.  So
\* no call returns what smartctl told a call that started 60000 ms or more before.
C21_RecordFromOneCallWithinTtl ==
    [][/\ \A path \in DOMAIN smartDataCache' :
              (path \notin DOMAIN smartDataCache
                   \/ smartDataCache'[path] # smartDataCache[path]) =>
                  \E id \in CallIds :
                      LET before == CallOf(id)
                          after == mappers'[id[1]].calls[id[2]][id[3]]
                      IN  /\ before.path = path
                          /\ before.state = "pending"
                          /\ after.state = "fulfilled"
                          /\ smartDataCache'[path] =
                                 after.value @@ [timestamp |-> before.start]
       /\ \A m \in DOMAIN mappers' : \A i \in DOMAIN mappers'[m].calls :
              \A k \in DOMAIN mappers'[m].calls[i] :
                  LET call == mappers'[m].calls[i][k]
                  IN  call.state = "hit" =>
                          /\ call.seen # NoEntry
                          /\ call.start - call.seen.timestamp < SMART_CACHE_DURATION_MS
                          /\ call.start >= call.seen.timestamp
                          /\ call.value = Restrict(call.seen, SmartKeys)]_vars

\* C21 witness: while B's call for /dev/sdb is still waiting for smartctl, A is served
\* the record with a temperature that a call started 59999 ms earlier has stored
C21_Witness ==
    /\ mappers["B"].status = "running"
    /\ mappers["B"].calls[1][1].state = "pending"
    /\ mappers["A"].status = "done"
    /\ mappers["A"].calls[1][1].state = "hit"
    /\ "temperature" \in DOMAIN mappers["A"].calls[1][1].value
    /\ mappers["A"].calls[1][1].start - mappers["A"].calls[1][1].seen.timestamp
           = SMART_CACHE_DURATION_MS - 1

(***************************************************************************)
(* Homarr: the summary built from info.storage and the storage load        *)
(*                                                                         *)
(* humanFileSize(n) is kept as the number it is given; a percentage is the *)
(* quotient num / den.                                                     *)
(***************************************************************************)
MaxInfoLen == 3

\* storageLoad.map((item) => item.load)
StorageLoadValuesOf(storageLoad) ==
    [i \in DOMAIN storageLoad |-> storageLoad[i].v.load.v]

humanFileSize(n) == [humanFileSize |-> n]

\* a number in a condition: 0 is false, every other number true
TruthyNumber(n) == n # 0

\* info.storage.filter((_, index) => storageLoadValues[index] !== -1)
\*     .map((storage, index) => ...): index in the callback of map is the position
\* in the filtered array
FileSystemOf(infoStorage, storageLoadValues) ==
    LET kept == Pick(infoStorage, {index \in DOMAIN infoStorage :
                                      storageLoadValues[index] # -1})
    IN  [index \in DOMAIN kept |->
            LET entry == kept[index]
                load == storageLoadValues[index]
            IN  [deviceName |-> [number |-> index, disks |-> entry.disks],
                 used |-> humanFileSize(load),
                 available |-> IF TruthyNumber(load) THEN entry.size - load
                               ELSE entry.size,
                 percentage |-> IF TruthyNumber(load)
                                THEN [num |-> load * 100, den |-> entry.size]
                                ELSE [num |-> 0, den |-> 1]]]

\* info.storage.map((storage, index) => ...) of the smart list
SmartOf(infoStorage, storageLoad) ==
    [index \in DOMAIN infoStorage |->
        LET item == storageLoad[index].v
        IN  [deviceName |-> [number |-> index, disks |-> infoStorage[index].disks],
             temperature |-> IF "temperature" \in DOMAIN item /\ item.temperature # JNull
                             THEN item.temperature ELSE JNull,
             overallStatus |-> IF "overallStatus" \in DOMAIN item
                                   /\ item.overallStatus # JNull
                               THEN item.overallStatus ELSE JStr(<<"N", "/", "A">>),
             healthy |-> IF "healthy" \in DOMAIN item /\ item.healthy # JNull
                         THEN item.healthy ELSE JBool(FALSE)]]

InfoPool == <<[size |-> 1000, disks |-> <<Disk(S_sda)>>],
              [size |-> 500, disks |-> <<Disk(S_sdb)>>],
              [size |-> 2000, disks |-> <<Disk(S_nvme)>>],
              [size |-> 4000, disks |-> <<Disk(S_md0)>>]>>

SummaryLoads ==
    { JObj([load |-> JNum(-1)]),
      JObj([load |-> JNum(0)]),
      JObj([load |-> JNum(100), temperature |-> JNum(40)]),
      JObj([load |-> JNum(300), overallStatus |-> JStr(FAILED), healthy |-> JBool(FALSE)]) }

\* getCurrentStorageLoadAsync has returned an array as long as info.storage
InitSummary ==
    /\ now = 0
    /\ ticks = 0
    /\ smartDataCache = <<>>
    /\ layout = <<>>
    /\ hostWin32 = FALSE
    /\ enable_smart_temps = TRUE
    /\ mappers = [m \in Mappers |-> Idle]
    /\ lastFailure = <<>>
    /\ storage = Undefined
    /\ response = NoResponse
    /\ \E n \in 0..MaxInfoLen : \E loads \in [1..n -> SummaryLoads] :
           client = [pc |-> "loaded", requests |-> <<ExtendedPath>>,
                     result |-> loads, info |-> SubSeq(InfoPool, 1, n)]
    /\ sockets = NoSockets

\* the summary is built
Summarize ==
    /\ client.pc = "loaded"
    /\ client' = [client EXCEPT !.pc = "summarized"]
                     @@ [fileSystem |-> FileSystemOf(client.info,
                                                     StorageLoadValuesOf(client.result)),
                         smart |-> SmartOf(client.info, client.result)]
    /\ UNCHANGED <<serverVars, storage, response, sockets>>

NextSummary == Summarize

SpecSummary == InitSummary /\ [][NextSummary]_vars

(***************************************************************************)
(* Properties of the summary                                               *)
(***************************************************************************)
\* the position in info.storage of the entry a fileSystem item names
SourceIndex(item) ==
    CHOOSE i \in DOMAIN client.info : client.info[i].disks = item.deviceName.disks

\* C23 as stated: every fileSystem item names an entry whose load is not -1 and its
\* used, available and percentage are computed from the load of that entry.
C23_Original ==
    client.pc = "summarized" =>
        \A j \in DOMAIN client.fileSystem :
            LET item == client.fileSystem[j]
                i == SourceIndex(item)
                load == client.result[i].v.load.v
                size == client.info[i].size
            IN  /\ load # -1
                /\ item.used = [humanFileSize |-> load]
                /\ item.available = IF load = 0 THEN size ELSE size - load
                /\ item.percentage = IF load = 0 THEN [num |-> 0, den |-> 1]
                                     ELSE [num |-> load * 100, den |-> size]
====
